---- MODULE Spec2Model ----
(***************************************************************************)
(* Model of the KHL statistics core (src/parser.py): season resolution,    *)
(* URL building, the statistics-table parser, the memoised get_players,    *)
(* prefix search and exact-name lookup.                                    *)
(*                                                                         *)
(* Text is modelled as a sequence of one-character tokens, so that strip,  *)
(* lower, startswith, split, isdigit and int are computed, not assumed.    *)
(* The token "sup2" stands for U+00B2 (superscript two): str.isdigit() is  *)
(* true of it, int() rejects it, and \d does not match it.                 *)
(***************************************************************************)
EXTENDS Integers, Sequences, FiniteSets, TLC

VARIABLES
    cache,      \* lru_cache of get_players: entries [key, val], oldest first
                \* (k: history, the index in KeyOrder of the storing call's arguments)
    thr,        \* per request thread: the position inside get_players / get_player_stats
    nextFresh,  \* environment: index in KeyOrder of the next key never requested
    revisits,   \* environment: calls made so far for an already requested key
    failures,   \* environment: transport failures injected so far
    site,       \* environment: version of the upstream pages
    evicted,    \* history: indices of the keys evicted from the cache so far
    failedKeys, \* history: keys whose last finished call failed, none stored since
    recency,    \* history: the cached keys' indices, least recently used first
    fn,         \* pure-function specifications: which function is applied
    arg,        \* pure-function specifications: its input
    out         \* pure-function specifications: its result, once applied

vars == <<cache, thr, nextFresh, revisits, failures, site, evicted, failedKeys,
          recency, fn, arg, out>>

cacheVars == <<cache, thr, nextFresh, revisits, failures, site, evicted,
               failedKeys, recency>>
pureVars == <<fn, arg, out>>

(***************************************************************************)
(* Text primitives (Python str methods used by the source).                *)
(***************************************************************************)
DecimalDigits == {"0", "1", "2", "3", "4", "5", "6", "7", "8", "9"}

\* Characters for which str.isdigit() is true: decimals and digit-like
\* characters such as the superscript digits.
IsDigitChars == DecimalDigits \cup {"sup2"}

Whitespace == {" "}

DigitVal(c) ==
    CASE c = "0" -> 0 [] c = "1" -> 1 [] c = "2" -> 2 [] c = "3" -> 3
      [] c = "4" -> 4 [] c = "5" -> 5 [] c = "6" -> 6 [] c = "7" -> 7
      [] c = "8" -> 8 [] c = "9" -> 9

LowerChar(c) ==
    CASE c = "A" -> "a" [] c = "B" -> "b" [] OTHER -> c

\* str.lower()
Lower(s) == [i \in 1..Len(s) |-> LowerChar(s[i])]

RECURSIVE LStrip(_)
LStrip(s) ==
    IF s # <<>> /\ Head(s) \in Whitespace THEN LStrip(Tail(s)) ELSE s

RECURSIVE RStrip(_)
RStrip(s) ==
    IF s # <<>> /\ s[Len(s)] \in Whitespace
    THEN RStrip(SubSeq(s, 1, Len(s) - 1)) ELSE s

\* str.strip()
Strip(s) == RStrip(LStrip(s))

\* str.startswith(q)
StartsWith(s, q) == Len(q) <= Len(s) /\ SubSeq(s, 1, Len(q)) = q

\* str.isdigit(): non-empty and every character a digit character
IsDigit(s) == s # <<>> /\ \A i \in 1..Len(s) : s[i] \in IsDigitChars

\* re.match(r"^-?\d+$", s): \d matches decimal digits only
MatchesSignedDigits(s) ==
    LET body == IF s # <<>> /\ Head(s) = "-" THEN Tail(s) ELSE s
    IN  body # <<>> /\ \A i \in 1..Len(body) : body[i] \in DecimalDigits

RECURSIVE DecimalValue(_)
DecimalValue(s) ==
    IF s = <<>> THEN 0
    ELSE 10 * DecimalValue(SubSeq(s, 1, Len(s) - 1)) + DigitVal(s[Len(s)])

\* int(s): surrounding whitespace is ignored, an optional sign, then decimal
\* digits; anything else raises ValueError (ok = FALSE).
PyInt(s) ==
    LET t    == Strip(s)
        neg  == t # <<>> /\ Head(t) = "-"
        body == IF neg THEN Tail(t) ELSE t
    IN  IF body # <<>> /\ \A i \in 1..Len(body) : body[i] \in DecimalDigits
        THEN [ok |-> TRUE, val |-> IF neg THEN 0 - DecimalValue(body) ELSE DecimalValue(body)]
        ELSE [ok |-> FALSE, val |-> 0]

\* "/" in season
HasSlash(s) == \E i \in 1..Len(s) : s[i] = "/"

RECURSIVE Split(_)
\* season.split("/")
Split(s) ==
    IF ~HasSlash(s) THEN <<s>>
    ELSE LET i == CHOOSE j \in 1..Len(s) :
                      s[j] = "/" /\ \A k \in 1..(j - 1) : s[k] # "/"
         IN  <<SubSeq(s, 1, i - 1)>> \o Split(SubSeq(s, i + 1, Len(s)))

(***************************************************************************)
(* Season resolution and URL.                                              *)
(***************************************************************************)
season_to_year_start(season) ==
    LET r == PyInt(Split(season)[1])
    IN  IF r.ok THEN [ok |-> TRUE, year |-> r.val] ELSE [ok |-> FALSE, year |-> 0]

\* _season_to_year: ok = FALSE is the ValueError (InvalidSeasonFormat)
season_to_year(season) ==
    IF HasSlash(season)
    THEN LET r == PyInt(Split(season)[2])
         IN  IF r.ok THEN [ok |-> TRUE, year |-> r.val]
             ELSE [ok |-> FALSE, year |-> 0]
    ELSE LET r == PyInt(season)
         IN  IF r.ok THEN [ok |-> TRUE, year |-> r.val]
             ELSE [ok |-> FALSE, year |-> 0]

RegularCode == 312
PlayoffCode == 315

TournamentCode(playoff) == IF playoff THEN PlayoffCode ELSE RegularCode

\* _build_url: the URL is the path template with its two holes filled
build_url(season, playoff) ==
    LET y == season_to_year(season)
    IN  IF y.ok
        THEN [ok |-> TRUE,
              url |-> [host |-> "allhockey.ru", path |-> "stat/khl",
                       year |-> y.year, code |-> TournamentCode(playoff),
                       leaf |-> "player"]]
        ELSE [ok |-> FALSE]

(***************************************************************************)
(* Table parser.  A document is the sequence of its table elements, a      *)
(* table the sequence of its tr rows, a row the sequence of the raw texts  *)
(* of its td/th cells.                                                     *)
(***************************************************************************)
\* The header literal that identifies the statistics table (the Cyrillic
\* word for "player", transliterated).
PlayerHeader == <<"I", "g", "r", "o", "k">>

MinCols == 12

\* [c.get_text().strip() for c in tr.find_all(["td", "th"])]
StripCells(row) == [i \in 1..Len(row) |-> Strip(row[i])]

\* cells of a candidate table, and the test `cells and "Igrok" in cells`
IsStatsTable(table) ==
    \E r \in 1..Len(table) : \E c \in 1..Len(table[r]) :
        Strip(table[r][c]) = PlayerHeader

\* cols[i] with the source's zero-based index
Col(cols, i) == cols[i + 1]

\* int(c) if c.isdigit() else 0; ok = FALSE is the ValueError int() raises
CountField(c) ==
    IF IsDigit(c) THEN PyInt(c) ELSE [ok |-> TRUE, val |-> 0]

\* int(c) if re.match(r"^-?\d+$", c) else 0
PlusMinusField(c) ==
    IF MatchesSignedDigits(c) THEN PyInt(c) ELSE [ok |-> TRUE, val |-> 0]

\* The body of the try block: ok = FALSE when an exception is raised, which
\* the except clause turns into skipping the row.
ParseRow(cols) ==
    LET points     == CountField(Col(cols, 5))
        goals      == CountField(Col(cols, 6))
        assists    == CountField(Col(cols, 7))
        games      == CountField(Col(cols, 8))
        plus_minus == PlusMinusField(Col(cols, 9))
        penalty    == CountField(Col(cols, 10))
    IN  IF points.ok /\ goals.ok /\ assists.ok /\ games.ok
           /\ plus_minus.ok /\ penalty.ok
        THEN [ok |-> TRUE,
              rec |-> [name |-> Col(cols, 1), team |-> Col(cols, 2),
                       team_abbr |-> Col(cols, 3), position |-> Col(cols, 4),
                       points |-> points.val, goals |-> goals.val,
                       assists |-> assists.val, games |-> games.val,
                       plus_minus |-> plus_minus.val, penalty |-> penalty.val]]
        ELSE [ok |-> FALSE]

\* One iteration of the row loop: the records the row contributes.
RowRecords(row) ==
    LET cols == StripCells(row)
    IN  IF cols = <<>> \/ Len(cols) < MinCols THEN <<>>
        ELSE LET r == ParseRow(cols)
             IN  IF r.ok THEN <<r.rec>> ELSE <<>>

RECURSIVE ParseRows(_)
\* for tr in rows: ... players.append(...)
ParseRows(rows) ==
    IF rows = <<>> THEN <<>>
    ELSE RowRecords(Head(rows)) \o ParseRows(Tail(rows))

\* table.find_all("tr")[1:]
DataRows(table) == IF table = <<>> THEN <<>> ELSE Tail(table)

\* parse_html: ok = FALSE is the ValueError "Statistics table not found"
parse_html(doc) ==
    IF \E t \in 1..Len(doc) : IsStatsTable(doc[t])
    THEN LET t == CHOOSE i \in 1..Len(doc) :
                      IsStatsTable(doc[i]) /\ \A j \in 1..(i - 1) : ~IsStatsTable(doc[j])
         IN  [ok |-> TRUE, players |-> ParseRows(DataRows(doc[t]))]
    ELSE [ok |-> FALSE, players |-> <<>>]

(***************************************************************************)
(* Search and lookup.                                                      *)
(***************************************************************************)
RECURSIVE SearchLoop(_, _, _, _)
\* The for loop of search_players: append a match, then test the length.
SearchLoop(q, players, limit, matches) ==
    IF players = <<>> THEN matches
    ELSE LET p == Head(players)
         IN  IF StartsWith(Lower(p.name), q)
             THEN LET m == Append(matches, p)
                  IN  IF Len(m) >= limit THEN m
                      ELSE SearchLoop(q, Tail(players), limit, m)
             ELSE SearchLoop(q, Tail(players), limit, matches)

search_players(query, players, limit) ==
    LET q == Lower(Strip(query))
    IN  IF q = <<>> THEN <<>> ELSE SearchLoop(q, players, limit, <<>>)

RECURSIVE LookupLoop(_, _)
\* The for loop of get_player_stats: found = FALSE is the None result.
LookupLoop(target, players) ==
    IF players = <<>> THEN [found |-> FALSE]
    ELSE IF Lower(Head(players).name) = target
         THEN [found |-> TRUE, player |-> Head(players)]
         ELSE LookupLoop(target, Tail(players))

find_player_unstripped(name, players) == LookupLoop(Lower(name), players)

\* get_player_stats after get_players has returned `players`
find_player(name, players) == LookupLoop(Strip(Lower(name)), players)

(***************************************************************************)
(* The upstream site and the request environment of get_players.           *)
(***************************************************************************)
S2025      == <<"2", "0", "2", "5">>
S2024_2025 == <<"2", "0", "2", "4", "/", "2", "0", "2", "5">>
S2024      == <<"2", "0", "2", "4">>
S2023_2024 == <<"2", "0", "2", "3", "/", "2", "0", "2", "4">>
S2023      == <<"2", "0", "2", "3">>
S2022      == <<"2", "0", "2", "2">>
S2021      == <<"2", "0", "2", "1">>
SBad       == <<"b", "a", "d">>

\* The (season, playoff) argument pairs the callers use, in the order in
\* which the environment first requests them.
KeyOrder ==
    << [season |-> S2025, playoff |-> FALSE],
       [season |-> S2024_2025, playoff |-> FALSE],
       [season |-> SBad, playoff |-> FALSE],
       [season |-> S2021, playoff |-> TRUE],
       [season |-> S2025, playoff |-> TRUE],
       [season |-> S2024, playoff |-> FALSE],
       [season |-> S2023_2024, playoff |-> FALSE],
       [season |-> S2024, playoff |-> TRUE],
       [season |-> S2023, playoff |-> FALSE],
       [season |-> S2023, playoff |-> TRUE],
       [season |-> S2022, playoff |-> FALSE],
       [season |-> S2022, playoff |-> TRUE],
       [season |-> S2021, playoff |-> FALSE] >>

Keys == 1..Len(KeyOrder)

Threads == {1, 2}

\* Bounds of the environment.
MaxRevisits == 2
MaxFailures == 1
MaxSiteVersion == 2
SmallKeys == 4
FillRevisits == 1

DigitChar(n) ==
    CASE n = 0 -> "0" [] n = 1 -> "1" [] n = 2 -> "2" [] n = 3 -> "3"
      [] n = 4 -> "4" [] n = 5 -> "5" [] n = 6 -> "6" [] n = 7 -> "7"
      [] n = 8 -> "8" [] n = 9 -> "9"

HeaderRow ==
    << <<"N">>, PlayerHeader, <<"T">>, <<"K">>, <<"A">>, <<"O">>, <<"S">>,
       <<"A">>, <<"I">>, <<"+">>, <<"P">>, <<"B">> >>

\* A row of the upstream table with the given name and cell texts.
StatRow(name, points, plus_minus) ==
    << <<"1">>, name, <<"T">>, <<"K">>, <<"F">>, points, <<"6">>, <<"7">>,
       <<"8">>, plus_minus, <<"1", "0">>, <<"9">> >>

ShortRow == << <<"1">>, <<"a">>, <<"T">>, <<"K">>, <<"F">> >>

\* What the upstream serves for a URL at a version of the site: the page of
\* the 2021 play-off has no statistics table; every other page has one
\* whose content depends on the year, the tournament and the version.
UpstreamDoc(url, version) ==
    IF url.year = 2021 /\ url.code = PlayoffCode
    THEN << << << <<"x">> >> >> >>
    ELSE << << HeaderRow,
               StatRow(IF version = 1 THEN <<" ", "A", "b">> ELSE <<"B", "a">>,
                       <<DigitChar(url.year % 10)>>,
                       IF url.code = PlayoffCode THEN <<"-", "3">> ELSE <<"4">>),
               ShortRow,
               StatRow(<<"a", "b">>, <<"x">>, <<"+", "1">>) >> >>

(***************************************************************************)
(* functools.lru_cache(maxsize=10) around get_players.                     *)
(***************************************************************************)
maxsize == 10

\* The cache key the decorator builds from the call's arguments.
MakeKey(season, playoff) == <<season, playoff>>

CacheFindNever(c, key) == 0

\* Position of the key's entry, 0 when it has none.
CacheFind(c, key) ==
    IF \E i \in 1..Len(c) : c[i].key = key
    THEN CHOOSE i \in 1..Len(c) : c[i].key = key
    ELSE 0

\* A hit moves the entry to the most recently used end.
CacheTouch(c, i) ==
    SubSeq(c, 1, i - 1) \o SubSeq(c, i + 1, Len(c)) \o <<c[i]>>

CacheStoreOffByOne(c, key, val, k) ==
    IF \E i \in 1..Len(c) : c[i].key = key THEN c
    ELSE IF Len(c) > maxsize
         THEN Append(Tail(c), [key |-> key, val |-> val, k |-> k])
         ELSE Append(c, [key |-> key, val |-> val, k |-> k])

\* After the wrapped function has returned: nothing when the key has been
\* stored meanwhile, else the oldest entry is dropped when the cache is full
\* and the new entry becomes the most recently used.
CacheStore(c, key, val, k) ==
    IF CacheFind(c, key) # 0 THEN c
    ELSE IF Len(c) >= maxsize
         THEN Append(Tail(c), [key |-> key, val |-> val, k |-> k])
         ELSE Append(c, [key |-> key, val |-> val, k |-> k])

CacheOnErrorStoresEmpty(c, key, k) ==
    Append(c, [key |-> key, val |-> <<>>, k |-> k])

\* After the wrapped function has raised: the exception passes through the
\* decorator, which stores nothing.
CacheOnError(c, key, k) == c

\* The body of get_players, fetch_html followed by parse_html, for one
\* answer of the network: up = FALSE when the request fails or the status
\* is not 2xx, else `page` is the text received.
FetchAndParse(season, playoff, up, page) ==
    LET u == build_url(season, playoff)
    IN  IF ~u.ok THEN [ok |-> FALSE, err |-> "InvalidSeasonFormat", requested |-> FALSE]
        ELSE IF ~up THEN [ok |-> FALSE, err |-> "FetchError", requested |-> TRUE]
        ELSE LET r == parse_html(page)
             IN  IF r.ok THEN [ok |-> TRUE, players |-> r.players, requested |-> TRUE]
                 ELSE [ok |-> FALSE, err |-> "TableNotFound", requested |-> TRUE]

\* The page the upstream serves for a call's URL (none when the URL cannot
\* be built).
PageFor(season, playoff, version) ==
    LET u == build_url(season, playoff)
    IN  IF u.ok THEN UpstreamDoc(u.url, version) ELSE <<>>

(***************************************************************************)
(* Concurrent callers of get_players (the request threads of the web       *)
(* application).  The decorator looks the key up, calls the function       *)
(* outside any lock and stores the result afterwards.                      *)
(***************************************************************************)
Finished == {"returned", "raised"}

IdleThread ==
    [pc |-> "idle", k |-> 0, val |-> <<>>, ret |-> <<>>, err |-> "",
     fetched |-> FALSE, touched |-> FALSE, evictOk |-> TRUE,
     cachedAtCall |-> [found |-> FALSE], normCachedAtCall |-> FALSE,
     afterFailure |-> FALSE, afterEviction |-> FALSE]

SeasonOf(k) == KeyOrder[k].season
PlayoffOf(k) == KeyOrder[k].playoff
KeyOf(k) == MakeKey(SeasonOf(k), PlayoffOf(k))

\* The resolved year of every argument pair, and every answer of the body,
\* tabulated once.
YearOf == [k \in Keys |-> season_to_year(SeasonOf(k))]

BodyResult ==
    [k \in Keys, up \in BOOLEAN, v \in 1..(MaxSiteVersion + 1) |->
        FetchAndParse(SeasonOf(k), PlayoffOf(k), up,
                      PageFor(SeasonOf(k), PlayoffOf(k), v))]

\* History only: the entries stored by a call with exactly these arguments,
\* and the argument pairs that name the same season and tournament.
EntriesFor(k) == {i \in 1..Len(cache) : cache[i].k = k}

SameSeason(j, k) ==
    /\ YearOf[j].ok
    /\ YearOf[k].ok
    /\ YearOf[j].year = YearOf[k].year
    /\ PlayoffOf(j) = PlayoffOf(k)

CachedIndices(c) == {c[i].k : i \in 1..Len(c)}

RemoveFrom(seq, x) == SelectSeq(seq, LAMBDA y : y # x)

NoneFinished == \A t \in Threads : thr[t].pc \notin Finished

CacheInit ==
    /\ cache = <<>>
    /\ thr = [t \in Threads |-> IdleThread]
    /\ nextFresh = 1
    /\ revisits = 0
    /\ failures = 0
    /\ site = 1
    /\ evicted = {}
    /\ failedKeys = {}
    /\ recency = <<>>

\* get_players(season, playoff) is called: the decorator's lookup.  The
\* environment asks for a key never requested before (the next of KeyOrder)
\* or, at most maxRev times and once the cache holds minLen entries, for one
\* requested before.  Idle threads are interchangeable: the lowest takes the
\* call.
Call(t, k, maxRev, minLen) ==
    /\ NoneFinished
    /\ thr[t].pc = "idle"
    /\ \A u \in Threads : u < t => thr[u].pc # "idle"
    /\ k <= nextFresh
    /\ IF k = nextFresh
       THEN nextFresh' = nextFresh + 1 /\ revisits' = revisits
       ELSE /\ revisits < maxRev
            /\ Len(cache) >= minLen
            /\ revisits' = revisits + 1
            /\ nextFresh' = nextFresh
    /\ LET i    == CacheFind(cache, KeyOf(k))
           hist == [IdleThread EXCEPT
                      !.k = k,
                      !.cachedAtCall =
                          IF EntriesFor(k) # {}
                          THEN [found |-> TRUE,
                                val |-> cache[CHOOSE e \in EntriesFor(k) : TRUE].val]
                          ELSE [found |-> FALSE],
                      !.normCachedAtCall =
                          \E j \in CachedIndices(cache) : SameSeason(j, k),
                      !.afterFailure = k \in failedKeys,
                      !.afterEviction = k \in evicted /\ EntriesFor(k) = {}]
       IN  IF i # 0
           THEN /\ cache' = CacheTouch(cache, i)
                /\ thr' = [thr EXCEPT ![t] = [hist EXCEPT !.pc = "returned",
                                                          !.ret = cache[i].val]]
                /\ recency' = Append(RemoveFrom(recency, cache[i].k), cache[i].k)
           ELSE /\ cache' = cache
                /\ thr' = [thr EXCEPT ![t] = [hist EXCEPT !.pc = "fetching"]]
                /\ recency' = recency
    /\ UNCHANGED <<failures, site, evicted, failedKeys, pureVars>>

\* The body of get_players: fetch_html, then parse_html.  up = FALSE is a
\* request that fails in transport or with a status that is not 2xx.
Fetch(t, up) ==
    /\ NoneFinished
    /\ thr[t].pc = "fetching"
    /\ ~up => failures < MaxFailures /\ YearOf[thr[t].k].ok
    /\ LET k == thr[t].k
           r == BodyResult[k, up, site]
       IN  IF r.ok
           THEN /\ thr' = [thr EXCEPT ![t].pc = "storing", ![t].val = r.players,
                                      ![t].fetched = TRUE]
                /\ UNCHANGED <<cache, failedKeys>>
           ELSE /\ cache' = CacheOnError(cache, KeyOf(k), k)
                /\ thr' = [thr EXCEPT ![t].pc = "raised", ![t].err = r.err,
                                      ![t].fetched = r.requested,
                                      ![t].touched = (cache' # cache)]
                /\ failedKeys' = IF EntriesFor(k) = {} THEN failedKeys \cup {k}
                                 ELSE failedKeys
    /\ failures' = IF up THEN failures ELSE failures + 1
    /\ UNCHANGED <<nextFresh, revisits, site, evicted, recency, pureVars>>

\* The decorator stores the returned list and hands it to the caller.
Store(t) ==
    /\ NoneFinished
    /\ thr[t].pc = "storing"
    /\ LET k == thr[t].k
       IN  /\ cache' = CacheStore(cache, KeyOf(k), thr[t].val, k)
           /\ thr' = [thr EXCEPT
                         ![t].pc = "returned", ![t].ret = thr[t].val,
                         ![t].val = <<>>,
                         ![t].evictOk =
                             IF Len(cache) >= maxsize /\ EntriesFor(k) = {}
                             THEN /\ CachedIndices(cache) \ CachedIndices(cache')
                                       = {Head(recency)}
                                  /\ k \in CachedIndices(cache')
                             ELSE CachedIndices(cache) \subseteq CachedIndices(cache')]
           /\ evicted' = evicted \cup (CachedIndices(cache) \ CachedIndices(cache'))
           /\ failedKeys' = failedKeys \ {k}
           /\ recency' = IF cache' = cache THEN recency
                         ELSE SelectSeq(Append(recency, k),
                                        LAMBDA x : x \in CachedIndices(cache'))
    /\ UNCHANGED <<nextFresh, revisits, failures, site, pureVars>>

\* The caller has the list or the exception: the thread is free for the
\* next request.  The step is local to the thread, so it is taken before
\* any other thread moves.
Return(t) ==
    /\ thr[t].pc \in Finished
    /\ thr' = [thr EXCEPT ![t] = IdleThread]
    /\ UNCHANGED <<cache, nextFresh, revisits, failures, site, evicted,
                   failedKeys, recency, pureVars>>

\* The upstream site publishes new content.
SiteUpdate ==
    /\ NoneFinished
    /\ site < MaxSiteVersion
    /\ site' = site + 1
    /\ UNCHANGED <<cache, thr, nextFresh, revisits, failures, evicted,
                   failedKeys, recency, pureVars>>

PureIdle ==
    /\ fn = "get_players"
    /\ arg = [none |-> TRUE]
    /\ out = [done |-> FALSE]

Init == CacheInit /\ PureIdle

\* Few keys, every kind of event: failures, re-requests, upstream updates.
Next ==
    \/ \E t \in Threads, k \in 1..SmallKeys : Call(t, k, MaxRevisits, 0)
    \/ \E t \in Threads, up \in BOOLEAN : Fetch(t, up)
    \/ \E t \in Threads : Store(t)
    \/ \E t \in Threads : Return(t)
    \/ SiteUpdate

Spec == Init /\ [][Next]_vars

\* Every key, so that the cache fills up and evicts.
NextFill ==
    \/ \E t \in Threads, k \in Keys : Call(t, k, FillRevisits, maxsize)
    \/ \E t \in Threads : Fetch(t, TRUE)
    \/ \E t \in Threads : Store(t)
    \/ \E t \in Threads : Return(t)

SpecFill == Init /\ [][NextFill]_vars

(***************************************************************************)
(* The functions applied to inputs drawn from bounded sets.                *)
(***************************************************************************)
MaxSeasonLen == 3
MaxQueryLen == 2
MaxNameLen == 3
MaxPlayers == 3
MaxListed == 2
MaxLimit == 2
MaxRows == 4

SeqsUpTo(S, n) == UNION {[1..m -> S] : m \in 0..n}

SeasonInputs ==
    SeqsUpTo({"2", "5", "/", "b", "-"}, MaxSeasonLen)
        \cup {S2025, S2024_2025, S2023_2024, SBad}

\* Names as parse_html stores them (stripped), and as a caller may type them.
StoredNames == {<<>>, <<"a">>, <<"a", "b">>, <<"A", "b">>, <<"B">>}
TypedTexts(n) == SeqsUpTo({"a", "A", "b", " "}, n)

MakePlayer(name, i) ==
    [name |-> name, team |-> <<"T">>, team_abbr |-> <<"K">>, position |-> <<"F">>,
     points |-> i, goals |-> 6, assists |-> 7, games |-> 8,
     plus_minus |-> 0, penalty |-> 10]

\* Lists of players told apart by their points.
PlayerLists ==
    {[i \in 1..Len(f) |-> MakePlayer(f[i], i)] : f \in SeqsUpTo(StoredNames, MaxPlayers)}

PureInit(f, inputs) ==
    /\ CacheInit
    /\ fn = f
    /\ arg \in inputs
    /\ out = [done |-> FALSE]

\* ---- _build_url ----
SeasonInit ==
    PureInit("build_url", [season : SeasonInputs, playoff : BOOLEAN])

BuildUrl ==
    /\ fn = "build_url"
    /\ ~out.done
    /\ out' = [done |-> TRUE, res |-> build_url(arg.season, arg.playoff)]
    /\ UNCHANGED <<cacheVars, fn, arg>>

SpecSeason == SeasonInit /\ [][BuildUrl]_vars

\* ---- search_players ----
SearchInit ==
    PureInit("search_players",
             [query : TypedTexts(MaxQueryLen), players : PlayerLists,
              limit : 0..MaxLimit])

SearchPlayers ==
    /\ fn = "search_players"
    /\ ~out.done
    /\ out' = [done |-> TRUE,
               res |-> search_players(arg.query, arg.players, arg.limit)]
    /\ UNCHANGED <<cacheVars, fn, arg>>

SpecSearch == SearchInit /\ [][SearchPlayers]_vars

\* ---- get_player_stats ----
\* The page the upstream serves: a header row and one row per name, the raw
\* name cell padded with whitespace as markup usually is.
LookupDoc(names) ==
    << <<HeaderRow>> \o
       [i \in 1..Len(names) |->
           StatRow(<<" ">> \o names[i] \o <<" ">>, <<DigitChar(i)>>, <<"0">>)] >>

LookupInit ==
    PureInit("get_player_stats",
             [name : TypedTexts(MaxNameLen),
              doc : {LookupDoc(f) : f \in SeqsUpTo(StoredNames, MaxListed)}])

\* get_player_stats(name, "2025", False) on an empty cache: get_players
\* misses, fetches and parses the page, stores the list, then the loop runs.
GetPlayerStats ==
    /\ fn = "get_player_stats"
    /\ ~out.done
    /\ CacheFind(cache, KeyOf(1)) = 0
    /\ LET r == FetchAndParse(SeasonOf(1), PlayoffOf(1), TRUE, arg.doc)
       IN  /\ r.ok
           /\ cache' = CacheStore(cache, KeyOf(1), r.players, 1)
           /\ recency' = <<1>>
           /\ out' = [done |-> TRUE, res |-> find_player(arg.name, r.players)]
    /\ UNCHANGED <<thr, nextFresh, revisits, failures, site, evicted,
                   failedKeys, fn, arg>>

SpecLookup == LookupInit /\ [][GetPlayerStats]_vars

\* ---- parse_html ----
CellTexts ==
    {<<>>, <<"7">>, <<"1", "2">>, <<"-", "3">>, <<"x">>, <<"sup2">>,
     <<"4", " ">>, <<"-">>}

CountCols == {5, 6, 7, 8, 10}

\* A twelve-cell row whose count cell at column f holds c and whose
\* plus/minus cell holds pm.
RowWith(name, f, c, pm) == [StatRow(name, <<"5">>, pm) EXCEPT ![f + 1] = c]

WideRows ==
    {RowWith(<<"a">>, f, c, pm) : f \in CountCols, c \in CellTexts, pm \in CellTexts}

FewRows ==
    {ShortRow, <<>>,
     StatRow(<<"a">>, <<"1">>, <<"2">>),
     StatRow(<<" ", "B">>, <<"x">>, <<"-", "3">>) \o << <<"9">> >>,
     StatRow(<<"c">>, <<"sup2">>, <<"1">>)}

ParseInit ==
    PureInit("parse_html",
             [doc : {<< <<HeaderRow>> \o rows >> :
                       rows \in SeqsUpTo(FewRows, MaxRows)
                                  \cup {<<r>> : r \in WideRows}}
                    \cup {<< <<ShortRow>> >>, << <<ShortRow>>, <<HeaderRow, ShortRow>> >>}])

ParseHtml ==
    /\ fn = "parse_html"
    /\ ~out.done
    /\ out' = [done |-> TRUE, res |-> parse_html(arg.doc)]
    /\ UNCHANGED <<cacheVars, fn, arg>>

SpecParse == ParseInit /\ [][ParseHtml]_vars

(***************************************************************************)
(* Claims about the season cache.                                          *)
(***************************************************************************)
\* C1: a get_players call made while the cache holds a list for its
\* (season, playoff) key returns exactly that list and issues no network
\* fetch.
C1_CachedKeyServedWithoutFetch ==
    \A t \in Threads :
        thr[t].cachedAtCall.found =>
            /\ thr[t].pc = "returned"
            /\ thr[t].ret = thr[t].cachedAtCall.val
            /\ ~thr[t].fetched

\* A hit after the upstream has changed: a new fetch would have returned
\* another list.
C1_Witness ==
    \E t \in Threads :
        /\ thr[t].cachedAtCall.found
        /\ thr[t].pc = "returned"
        /\ BodyResult[thr[t].k, TRUE, site].ok
        /\ BodyResult[thr[t].k, TRUE, site].players # thr[t].ret

\* Every entry of the cache is the list of a successful fetch and parse of
\* its key's page.
OnlySuccessesCached ==
    \A i \in 1..Len(cache) :
        \E v \in 1..site :
            /\ BodyResult[cache[i].k, TRUE, v].ok
            /\ BodyResult[cache[i].k, TRUE, v].players = cache[i].val

\* C2 as stated: a failed call propagates its failure and leaves the cache
\* unchanged, nothing is stored for its key, and the next call for the same
\* key issues a new network fetch.
C2_FailedCallRetriesNetwork ==
    /\ OnlySuccessesCached
    /\ \A t \in Threads :
        /\ thr[t].pc = "raised" =>
              /\ ~thr[t].touched
              /\ thr[t].err \in {"FetchError", "TableNotFound", "InvalidSeasonFormat"}
        /\ thr[t].afterFailure /\ thr[t].pc \in Finished => thr[t].fetched

\* C2, amended: the next call for the same key is not served from the cache
\* but runs the body again; it issues a new network fetch unless the season
\* is invalid, in which case it fails again before any request is made.
C2_FailedCallIsNotCached ==
    /\ OnlySuccessesCached
    /\ \A t \in Threads :
        /\ thr[t].pc = "raised" =>
              /\ ~thr[t].touched
              /\ thr[t].err \in {"FetchError", "TableNotFound", "InvalidSeasonFormat"}
        /\ thr[t].afterFailure => ~thr[t].cachedAtCall.found
        /\ thr[t].afterFailure /\ thr[t].pc \in Finished =>
              \/ thr[t].fetched
              \/ /\ thr[t].pc = "raised"
                 /\ thr[t].err = "InvalidSeasonFormat"
                 /\ ~YearOf[thr[t].k].ok

\* A call that follows a failed call for the same key fetches and succeeds.
C2_Witness ==
    \E t \in Threads :
        /\ thr[t].afterFailure
        /\ thr[t].pc = "returned"
        /\ thr[t].fetched
        /\ EntriesFor(thr[t].k) # {}

\* C3 as stated: a call whose resolved year and playoff flag are those of a
\* cached entry is served from the cache without a network fetch.
C3_ResolvedYearSharesEntry ==
    \A t \in Threads :
        thr[t].normCachedAtCall =>
            /\ thr[t].pc = "returned"
            /\ ~thr[t].fetched

\* C10: the cache never holds more than maxsize keys; a store of a new key
\* into a full cache evicts exactly the least recently used entry; a call
\* for an evicted key fetches again.
C10_CacheBoundedWithEviction ==
    /\ Len(cache) <= maxsize
    /\ Cardinality({cache[i].key : i \in 1..Len(cache)}) = Len(cache)
    /\ \A t \in Threads :
        /\ thr[t].evictOk
        /\ thr[t].afterEviction =>
              \/ thr[t].pc \in {"fetching", "storing"}
              \/ thr[t].fetched

\* A call for an evicted key has fetched again and its store has evicted in
\* turn, the cache being full.
C10_Witness ==
    \E t \in Threads :
        /\ thr[t].afterEviction
        /\ thr[t].pc = "returned"
        /\ thr[t].fetched
        /\ Len(cache) = maxsize
        /\ Cardinality(evicted) >= 2

(***************************************************************************)
(* Claims about the functions.                                             *)
(***************************************************************************)
AllDecimal(x) == x # <<>> /\ \A i \in 1..Len(x) : x[i] \in DecimalDigits

SignedDecimal(x) ==
    \/ AllDecimal(x)
    \/ x # <<>> /\ Head(x) = "-" /\ AllDecimal(Tail(x))

RECURSIVE NumberFrom(_, _, _)
NumberFrom(x, i, acc) ==
    IF i > Len(x) THEN acc ELSE NumberFrom(x, i + 1, 10 * acc + DigitVal(x[i]))

\* The number a text of decimal digits, with an optional minus sign, denotes.
NumberOf(x) ==
    IF x # <<>> /\ Head(x) = "-" THEN 0 - NumberFrom(Tail(x), 1, 0)
    ELSE NumberFrom(x, 1, 0)

\* The part of a season identifier that names the ending year: the text
\* between the first separator and the next one (or the end), or the whole
\* identifier when it has no separator.
EndingYearText(s) ==
    IF \E i \in 1..Len(s) : s[i] = "/"
    THEN LET i == CHOOSE a \in 1..Len(s) :
                      s[a] = "/" /\ \A b \in 1..(a - 1) : s[b] # "/"
             stops == {a \in (i + 1)..Len(s) : s[a] = "/"} \cup {Len(s) + 1}
             j == CHOOSE a \in stops : \A b \in stops : a <= b
         IN  SubSeq(s, i + 1, j - 1)
    ELSE s

\* C8: the ending year of "start/end" and a plain year resolve to that year,
\* which the URL carries with the tournament code (315 play-off, 312 regular
\* season); an identifier whose year part is no integer fails.
C8_SeasonResolution ==
    fn = "build_url" /\ out.done =>
        LET y == EndingYearText(arg.season)
        IN  /\ AllDecimal(y) =>
                  /\ out.res.ok
                  /\ out.res.url.year = NumberOf(y)
                  /\ out.res.url.code = (IF arg.playoff THEN 315 ELSE 312)
                  /\ out.res.url.host = "allhockey.ru"
                  /\ out.res.url.path = "stat/khl"
                  /\ out.res.url.leaf = "player"
            /\ ~SignedDecimal(y) => ~out.res.ok
            /\ arg.season \in {S2025, S2024_2025} => out.res.ok /\ out.res.url.year = 2025
            /\ arg.season = SBad => ~out.res.ok

C8_Witness ==
    /\ fn = "build_url"
    /\ out.done
    /\ arg.season = S2024_2025
    /\ arg.playoff
    /\ out.res.ok
    /\ out.res.url.year = 2025
    /\ out.res.url.code = 315

\* C4 as stated: search_players returns at most `limit` results.
C4_AtMostLimitResults ==
    fn = "search_players" /\ out.done => Len(out.res) <= arg.limit

\* C5 as stated: for a non-empty normalised query the result is the first
\* min(limit, m) players, in list order, whose lowercased name starts with
\* it; for an empty or whitespace-only query the result is empty.
C5_FirstMatchesInListOrder ==
    fn = "search_players" /\ out.done =>
        LET q        == Lower(Strip(arg.query))
            matching == SelectSeq(arg.players,
                                  LAMBDA p : StartsWith(Lower(p.name), q))
            n        == IF arg.limit < Len(matching) THEN arg.limit ELSE Len(matching)
        IN  out.res = IF q = <<>> THEN <<>> ELSE SubSeq(matching, 1, n)

UpperChar(c) ==
    CASE c = "a" -> "A" [] c = "b" -> "B" [] OTHER -> c

SameIgnoringCase(a, b) ==
    Len(a) = Len(b) /\ \A i \in 1..Len(a) : UpperChar(a[i]) = UpperChar(b[i])

\* The positions of the cached list whose name is the requested one.
Matching(players, name) ==
    {i \in 1..Len(players) : SameIgnoringCase(players[i].name, Strip(name))}

\* C9: get_player_stats returns the first player of the list whose name is
\* the requested name, ignoring letter case and surrounding whitespace, and
\* None exactly when there is no such player.
C9_FirstCaseInsensitiveMatch ==
    fn = "get_player_stats" /\ out.done =>
        LET players == cache[1].val
            hits    == Matching(players, arg.name)
        IN  IF hits = {} THEN ~out.res.found
            ELSE /\ out.res.found
                 /\ out.res.player =
                        players[CHOOSE i \in hits : \A j \in hits : i <= j]

\* Two players match a name typed with other case and with whitespace
\* around it; the first is returned.
C9_Witness ==
    /\ fn = "get_player_stats"
    /\ out.done
    /\ out.res.found
    /\ Cardinality(Matching(cache[1].val, arg.name)) = 2
    /\ out.res.player = cache[1].val[1]
    /\ out.res.player.name # Strip(arg.name)
    /\ Strip(arg.name) # arg.name

\* The statistics table of a document and its rows after the header row.
StatsTableOf(doc) ==
    doc[CHOOSE t \in 1..Len(doc) :
            /\ \E r \in 1..Len(doc[t]) : \E c \in 1..Len(doc[t][r]) :
                   Strip(doc[t][r][c]) = PlayerHeader
            /\ \A u \in 1..(t - 1) :
                   ~\E r \in 1..Len(doc[u]) : \E c \in 1..Len(doc[u][r]) :
                       Strip(doc[u][r][c]) = PlayerHeader]

RowsAfterHeader(doc) ==
    SubSeq(StatsTableOf(doc), 2, Len(StatsTableOf(doc)))

FullRows(doc) == SelectSeq(RowsAfterHeader(doc), LAMBDA r : Len(r) >= 12)

InsertAt(seq, pos, x) ==
    SubSeq(seq, 1, pos - 1) \o <<x>> \o SubSeq(seq, pos, Len(seq))

MalformedRows == {<<>>, ShortRow, SubSeq(HeaderRow, 1, 11)}

\* C6 as stated: one record per row after the header row that has at least
\* 12 cells, in row order; a row of fewer than 12 cells inserted anywhere
\* after the header row leaves the records unchanged.
C6_RowIsolation ==
    fn = "parse_html" /\ out.done /\ out.res.ok =>
        LET table == StatsTableOf(arg.doc)
            full  == FullRows(arg.doc)
        IN  /\ Len(out.res.players) = Len(full)
            /\ \A i \in 1..Len(full) :
                   i <= Len(out.res.players)
                       => out.res.players[i].name = Strip(full[i][2])
            /\ \A pos \in 2..(Len(table) + 1) : \A m \in MalformedRows :
                   parse_html(<<InsertAt(table, pos, m)>>).players = out.res.players

ExpectedCount(cell) == IF AllDecimal(cell) THEN NumberOf(cell) ELSE 0

ExpectedPlusMinus(cell) == IF SignedDecimal(cell) THEN NumberOf(cell) ELSE 0

\* C7 as stated: every row of at least 12 cells produces a record whose
\* count fields are the value of an all-digit cell and 0 for any other
\* cell, and whose plus_minus is the value of a cell of the form -?digits
\* and 0 otherwise.
C7_NumericCells ==
    fn = "parse_html" /\ out.done /\ out.res.ok =>
        LET full == FullRows(arg.doc)
        IN  /\ Len(out.res.players) = Len(full)
            /\ \A i \in 1..Len(full) :
                   i <= Len(out.res.players) =>
                       LET p == out.res.players[i]
                           cell(n) == Strip(full[i][n + 1])
                       IN  /\ p.points = ExpectedCount(cell(5))
                           /\ p.goals = ExpectedCount(cell(6))
                           /\ p.assists = ExpectedCount(cell(7))
                           /\ p.games = ExpectedCount(cell(8))
                           /\ p.plus_minus = ExpectedPlusMinus(cell(9))
                           /\ p.penalty = ExpectedCount(cell(10))

====
